---- MODULE Spec2Model ----
(***************************************************************************)
(* Model of the magistrala logging facility and of the logging decorators  *)
(* built on it:                                                            *)
(*   - logger/slogger.go : the Logger facade (Debug/Info/Warn/Error) with  *)
(*                         its own threshold, and its constructor New;     *)
(*   - logger/logger.go  : New returning a *slog.Logger whose JSON handler *)
(*                         carries the threshold;                          *)
(*   - users, certs, bootstrap and messaging-handler logging middlewares.  *)
(* Texts that are parsed are sequences of one-character strings, so that   *)
(* parsing is computed character by character as the code does.            *)
(***************************************************************************)
EXTENDS Integers, Sequences, FiniteSets, TLC

VARIABLES
    levelText,  \* the level text handed to New (a sequence of characters)
    impl,       \* which constructor is used: "slogger" or "slog"
    lpc,        \* position of the logger client: "init", "ready", "failed"
    logger,     \* the value New returned as its first result
    newErr,     \* the value New returned as its second result (Nil = nil)
    lastOp,     \* the last Logger operation called: [n, op, msg, args, before]
    sink,       \* the io.Writer: the sequence of JSON records written so far
    clock,      \* wall clock, in ticks
    calls,      \* the decorator calls, one record per call id
    writer,     \* the io.Writer behind the sink: [mayFail, failed]
    main        \* cassandra-writer's main: its position, exitCode, resources

vars == <<levelText, impl, lpc, logger, newErr, lastOp, sink, clock, calls, writer, main>>

Nil == "<nil>"

(***************************************************************************)
(* Bounds of the model.                                                    *)
(***************************************************************************)
MaxLogCalls == 2   \* Logger operations called in one behaviour
MaxClock == 2      \* ticks the wrapped service may take in one behaviour
MaxCalls == 2      \* decorator calls in flight at once

(***************************************************************************)
(* Characters and case folding (strings.ToUpper / strings.ToLower).        *)
(***************************************************************************)
LowerLetters == <<"a","b","c","d","e","f","g","h","i","j","k","l","m",
                  "n","o","p","q","r","s","t","u","v","w","x","y","z">>
UpperLetters == <<"A","B","C","D","E","F","G","H","I","J","K","L","M",
                  "N","O","P","Q","R","S","T","U","V","W","X","Y","Z">>
Digits == <<"0","1","2","3","4","5","6","7","8","9">>

ToUpperCh(c) ==
    IF \E i \in 1..Len(LowerLetters) : LowerLetters[i] = c
    THEN UpperLetters[CHOOSE i \in 1..Len(LowerLetters) : LowerLetters[i] = c]
    ELSE c

ToLowerCh(c) ==
    IF \E i \in 1..Len(UpperLetters) : UpperLetters[i] = c
    THEN LowerLetters[CHOOSE i \in 1..Len(UpperLetters) : UpperLetters[i] = c]
    ELSE c

ToUpper(s) == [i \in 1..Len(s) |-> ToUpperCh(s[i])]
ToLower(s) == [i \in 1..Len(s) |-> ToLowerCh(s[i])]

IsDigit(c) == \E i \in 1..Len(Digits) : Digits[i] = c
DigitVal(c) == (CHOOSE i \in 1..Len(Digits) : Digits[i] = c) - 1

RECURSIVE DigitsVal(_)
DigitsVal(s) ==
    IF s = <<>> THEN 0 ELSE 10 * DigitsVal(SubSeq(s, 1, Len(s) - 1)) + DigitVal(s[Len(s)])

\* strconv.Atoi: an optional sign followed by at least one digit, nothing else.
AtoiOk(s) ==
    LET body == IF s # <<>> /\ s[1] \in {"+", "-"} THEN Tail(s) ELSE s
    IN  body # <<>> /\ \A i \in 1..Len(body) : IsDigit(body[i])

Atoi(s) ==
    LET neg  == s # <<>> /\ s[1] = "-"
        body == IF s # <<>> /\ s[1] \in {"+", "-"} THEN Tail(s) ELSE s
    IN  IF neg THEN 0 - DigitsVal(body) ELSE DigitsVal(body)

\* strings.IndexAny(s, "+-"): the first index of '+' or '-', 0 when there is none.
IndexSign(s) ==
    IF \E i \in 1..Len(s) : s[i] \in {"+", "-"}
    THEN CHOOSE i \in 1..Len(s) :
            /\ s[i] \in {"+", "-"}
            /\ \A j \in 1..(i - 1) : s[j] \notin {"+", "-"}
    ELSE 0

(***************************************************************************)
(* Level of package logger (slogger.go's Level): Debug < Info < Warn <     *)
(* Error, parsed case-insensitively from the four names.                   *)
(***************************************************************************)
Debug == 0
Info == 1
Warn == 2
Error == 3
Levels == {Debug, Info, Warn, Error}

LevelName(lvl) ==
    CASE lvl = Debug -> <<"d","e","b","u","g">>
      [] lvl = Info  -> <<"i","n","f","o">>
      [] lvl = Warn  -> <<"w","a","r","n">>
      [] lvl = Error -> <<"e","r","r","o","r">>

\* Level.isAllowed: the receiver is the level of the operation.
isAllowed(lvl, logLevel) == lvl >= logLevel

ErrInvalidLogLevel == "unrecognized log level"

\* Level.UnmarshalText: [ok, level, err].
UnmarshalText(text) ==
    IF \E lvl \in Levels : ToLower(text) = LevelName(lvl)
    THEN [ok |-> TRUE,
          level |-> CHOOSE lvl \in Levels : ToLower(text) = LevelName(lvl),
          err |-> Nil]
    ELSE [ok |-> FALSE, level |-> Debug, err |-> ErrInvalidLogLevel]

(***************************************************************************)
(* slog.Level, as used by logger.go and by the handlers.                   *)
(***************************************************************************)
LevelDebug == -4
LevelInfo == 0
LevelWarn == 4
LevelError == 8
SlogLevels == {LevelDebug, LevelInfo, LevelWarn, LevelError}

SlogName(l) ==
    CASE l = LevelDebug -> <<"D","E","B","U","G">>
      [] l = LevelInfo  -> <<"I","N","F","O">>
      [] l = LevelWarn  -> <<"W","A","R","N">>
      [] l = LevelError -> <<"E","R","R","O","R">>

\* slog.Level.UnmarshalText: NAME or NAME+N or NAME-N, the name in any case.
slogUnmarshalText(text) ==
    LET i      == IndexSign(text)
        name   == IF i > 0 THEN SubSeq(text, 1, i - 1) ELSE text
        rest   == IF i > 0 THEN SubSeq(text, i, Len(text)) ELSE <<>>
        known  == \E l \in SlogLevels : ToUpper(name) = SlogName(l)
    IN  IF i > 0 /\ ~AtoiOk(rest)
        THEN [ok |-> FALSE, level |-> LevelInfo,
              err |-> [what |-> "invalid syntax", text |-> text]]
        ELSE IF ~known
        THEN [ok |-> FALSE, level |-> LevelInfo,
              err |-> [what |-> "unknown name", text |-> text]]
        ELSE [ok |-> TRUE,
              level |-> (CHOOSE l \in SlogLevels : ToUpper(name) = SlogName(l))
                        + (IF i > 0 THEN Atoi(rest) ELSE 0),
              err |-> Nil]

\* slog.Level.String for the levels records are written at.
SlogLevelString(l) ==
    CASE l = LevelDebug -> "DEBUG"
      [] l = LevelInfo  -> "INFO"
      [] l = LevelWarn  -> "WARN"
      [] l = LevelError -> "ERROR"

(***************************************************************************)
(* Inputs of the model.                                                    *)
(***************************************************************************)
BaseNames ==
    {LevelName(lvl) : lvl \in Levels}
    \cup {ToUpper(LevelName(lvl)) : lvl \in Levels}
    \cup {<<ToUpperCh(Head(LevelName(lvl)))>> \o Tail(LevelName(lvl)) : lvl \in Levels}
    \cup {<<>>, <<"t","r","a","c","e">>, <<"w","a","r","n","i","n","g">>, <<"i","n","f">>}

Suffixes == {<<>>, <<"+","1">>, <<"-","4">>, <<"+">>, <<"2">>}

LevelTexts == {n \o s : n \in BaseNames, s \in Suffixes}

CanonicalTexts == {LevelName(lvl) : lvl \in Levels}

Msgs == {"msg", "Could not connect to docker"}

(***************************************************************************)
(* log/slog: attributes, records and the JSON handler.                     *)
(***************************************************************************)
\* slog.String / slog.Any / slog.Uint64: a key with a value.
Attr(k, v) == [key |-> k, value |-> v]
\* slog.Group: a key with nested attributes.
Group(k, as) == [key |-> k, group |-> as]
\* An argument that is not an Attr (a bare key or a bare value).
Raw(v) == [raw |-> v]

IsAttr(a) == "key" \in DOMAIN a

badKey == "!BADKEY"

\* slog's argsToAttr over the whole argument list.
RECURSIVE argsToAttrSlice(_)
argsToAttrSlice(args) ==
    IF args = <<>> THEN <<>>
    ELSE IF IsAttr(Head(args)) THEN <<Head(args)>> \o argsToAttrSlice(Tail(args))
    ELSE IF Len(args) = 1 THEN <<Attr(badKey, Head(args).raw)>>
    ELSE <<Attr(Head(args).raw,
                IF IsAttr(args[2]) THEN args[2] ELSE args[2].raw)>>
         \o argsToAttrSlice(SubSeq(args, 3, Len(args)))

\* HandlerOptions.Level of the JSON handler: Handler.Enabled.
Enabled(l, level) == level >= l.level

\* JSONHandler.Handle: one object with time, level, msg and the attributes.
JSONRecord(now, level, msg, args) ==
    [time  |-> now,
     level |-> SlogLevelString(level),
     msg   |-> msg,
     attrs |-> argsToAttrSlice(args)]

\* slog.Logger.log: the sink after a call at `level` (the write is one unit).
slogLog(l, out, now, level, msg, args) ==
    IF Enabled(l, level) THEN Append(out, JSONRecord(now, level, msg, args)) ELSE out

\* The io.Writer the handler was built on.  A Write that fails leaves the sink
\* as it was; Handle returns the error and slog.Logger.log drops it.
WriteResults == IF writer.mayFail THEN BOOLEAN ELSE {TRUE}
WriterWrite(before, after, ok) == IF ok THEN after ELSE before
WriterAfter(before, after, ok) ==
    IF ~ok /\ after # before THEN [writer EXCEPT !.errs = @ + 1] ELSE writer

(***************************************************************************)
(* logger.go: New returning a *slog.Logger.                                *)
(***************************************************************************)
RFC3339Nano == "2006-01-02T15:04:05.999999999Z07:00"

\* fmt.Errorf(`{"level":"error","message":"%s: %s","ts":"%s"}`, ...)
NewError(err, text, ts) ==
    [level |-> "error", message |-> <<err, text>>, ts |-> ts]

\* &slog.Logger{}: a logger with no handler.
ZeroSlogLogger == [kind |-> "slog", handler |-> Nil]
\* The nil Logger interface value.
NilLogger == [kind |-> Nil]
NoError == [nil |-> TRUE]

logger_New(text) ==
    LET r == slogUnmarshalText(text)
    IN  IF ~r.ok
        THEN [logger |-> ZeroSlogLogger,
              err |-> [nil |-> FALSE, v |-> NewError(r.err, text, RFC3339Nano)]]
        ELSE [logger |-> [kind |-> "slog", handler |-> "json", level |-> r.level],
              err |-> NoError]

(***************************************************************************)
(* slogger.go: the Logger facade and its constructor.                      *)
(***************************************************************************)
slogger_New(text) ==
    LET r == UnmarshalText(text)
    IN  IF ~r.ok
        THEN [logger |-> NilLogger,
              err |-> [nil |-> FALSE, v |-> NewError(r.err, text, RFC3339Nano)]]
        ELSE [logger |-> [kind |-> "facade",
                          sLogger |-> [kind |-> "slog", handler |-> "json",
                                       level |-> LevelDebug],
                          level |-> r.level],
              err |-> NoError]

logger_Debug(l, out, now, msg) ==
    IF isAllowed(Debug, l.level)
    THEN slogLog(l.sLogger, out, now, LevelDebug, "msg", <<Raw(msg)>>)
    ELSE out

\* Info with the guard of Warn pasted in.
logger_Info_WarnGuard(l, out, now, msg) ==
    IF isAllowed(Warn, l.level)
    THEN slogLog(l.sLogger, out, now, LevelInfo, msg, <<>>)
    ELSE out

logger_Info(l, out, now, msg) ==
    IF isAllowed(Info, l.level)
    THEN slogLog(l.sLogger, out, now, LevelInfo, msg, <<>>)
    ELSE out

logger_Warn(l, out, now, msg) ==
    IF isAllowed(Warn, l.level)
    THEN slogLog(l.sLogger, out, now, LevelWarn, msg, <<>>)
    ELSE out

logger_Error(l, out, now, msg) ==
    IF isAllowed(Error, l.level)
    THEN slogLog(l.sLogger, out, now, LevelError, msg, <<>>)
    ELSE out

(***************************************************************************)
(* Values shared by the logging middlewares.                               *)
(***************************************************************************)
\* Errors are named by their identity; Error() gives the text that is logged.
ErrNotFound == "ErrNotFound"
ErrAuthentication == "ErrAuthentication"
Errs == {ErrNotFound, ErrAuthentication}

ErrorString(e) ==
    CASE e = ErrNotFound       -> "entity not found"
      [] e = ErrAuthentication -> "failed to perform authentication over the entity"

NilPtr == [nil |-> TRUE]
Ptr(v) == [nil |-> FALSE, v |-> v]

\* time.Duration.String of a number of ticks.
DurationString(t) == IF t = 0 THEN "0s" ELSE ToString(t) \o "ms"

\* fmt.Sprintf("%v", tags) of a []string.
RECURSIVE JoinSpace(_)
JoinSpace(ss) ==
    IF ss = <<>> THEN ""
    ELSE IF Len(ss) = 1 THEN ss[1]
    ELSE ss[1] \o " " \o JoinSpace(Tail(ss))

SprintV(ss) == "[" \o JoinSpace(ss) \o "]"

\* mgclients.Role.String.
RoleString(r) == IF r = 1 THEN "admin" ELSE "user"

\* The statement `return lm.svc.<op>(ctx, args...)`.
Delegate(op, args) == [kind |-> "delegate", op |-> op, args |-> args]
\* The statement `return nil`.
ReturnNil == [kind |-> "return", op |-> Nil, args |-> <<>>]

\* What a deferred closure does: it panics, or it calls the logger once.
PanicOutcome == [panic |-> TRUE, level |-> LevelError, msg |-> "", args |-> <<>>]
LogCall(level, msg, args) == [panic |-> FALSE, level |-> level, msg |-> msg, args |-> args]

\* The common tail of the deferred closures:
\*   if err != nil { args = append(args, slog.Any("error", err)); Warn(failed, args...); return }
\*   Info(succeeded, args...)
LogOutcome(args, err, failed, succeeded) ==
    IF err # Nil
    THEN LogCall(LevelWarn, failed, args \o <<Attr("error", ErrorString(err))>>)
    ELSE LogCall(LevelInfo, succeeded, args)

\* A decorator method: whether it panics before its defer statement, the
\* statement it returns with, and what its deferred closure does.
Method(body, deferred) == [entryPanic |-> FALSE, body |-> body, deferred |-> deferred]
NilDeref == [entryPanic |-> TRUE, body |-> ReturnNil, deferred |-> PanicOutcome]

(***************************************************************************)
(* users logging middleware.  a: the arguments, n: the named results       *)
(* [res, err] when the deferred closure runs, d: time.Since(begin).String()*)
(***************************************************************************)
users_RegisterClient(a, n, d) ==
    Method(Delegate("RegisterClient", <<a.token, a.client>>),
           LogOutcome(<<Attr("duration", d),
                        Group("user", <<Attr("name", n.res.Name), Attr("id", n.res.ID)>>)>>,
                      n.err,
                      "Register client failed to complete successfully",
                      "Register client completed successfully"))

users_IssueToken(a, n, d) ==
    Method(Delegate("IssueToken", <<a.identity, a.secret, a.domainID>>),
           IF n.res.nil THEN PanicOutcome
           ELSE LogOutcome(<<Attr("duration", d), Attr("domain_id", a.domainID)>>
                           \o (IF n.res.v.AccessType # ""
                               THEN <<Raw("access_type"), Raw(n.res.v.AccessType)>>
                               ELSE <<>>),
                           n.err,
                           "Issue token failed to complete successfully",
                           "Issue token completed successfully"))

users_RefreshToken(a, n, d) ==
    Method(Delegate("RefreshToken", <<a.refreshToken, a.domainID>>),
           IF n.res.nil THEN PanicOutcome
           ELSE LogOutcome(<<Attr("duration", d), Attr("domain_id", a.domainID)>>
                           \o (IF n.res.v.AccessType # ""
                               THEN <<Raw("access_type"), Raw(n.res.v.AccessType)>>
                               ELSE <<>>),
                           n.err,
                           "Refresh token failed to complete successfully",
                           "Refresh token completed successfully"))

users_ViewClient(a, n, d) ==
    Method(Delegate("ViewClient", <<a.token, a.id>>),
           LogOutcome(<<Attr("duration", d),
                        Group("user", <<Attr("name", n.res.Name), Attr("id", a.id)>>)>>,
                      n.err,
                      "View client failed to complete successfully",
                      "View client completed successfully"))

users_ViewProfile(a, n, d) ==
    Method(Delegate("ViewProfile", <<a.token>>),
           LogOutcome(<<Attr("duration", d),
                        Group("user", <<Attr("name", n.res.Name), Attr("id", n.res.ID)>>)>>,
                      n.err,
                      "View profile failed to complete successfully",
                      "View profile completed successfully"))

users_ListClients(a, n, d) ==
    Method(Delegate("ListClients", <<a.token, a.pm>>),
           LogOutcome(<<Attr("duration", d),
                        Group("page", <<Attr("limit", a.pm.Limit), Attr("offset", a.pm.Offset)>>)>>,
                      n.err,
                      "List clients failed to complete successfully",
                      "List clients completed successfully"))

users_UpdateClient(a, n, d) ==
    Method(Delegate("UpdateClient", <<a.token, a.client>>),
           LogOutcome(<<Attr("duration", d),
                        Group("user", <<Attr("name", n.res.Name), Attr("id", n.res.ID)>>),
                        Attr("metadata", n.res.Metadata)>>,
                      n.err,
                      "Update client failed to complete successfully",
                      "Update client completed successfully"))

users_UpdateClientTags(a, n, d) ==
    Method(Delegate("UpdateClientTags", <<a.token, a.client>>),
           LogOutcome(<<Attr("duration", d),
                        Group("user", <<Attr("id", n.res.ID), Attr("tags", SprintV(n.res.Tags))>>)>>,
                      n.err,
                      "Update client tags failed to complete successfully",
                      "Update client tags completed successfully"))

users_UpdateClientIdentity(a, n, d) ==
    Method(Delegate("UpdateClientIdentity", <<a.token, a.id, a.identity>>),
           LogOutcome(<<Attr("duration", d),
                        Group("user", <<Attr("id", n.res.ID), Attr("identity", a.identity)>>)>>,
                      n.err,
                      "Update client identity failed to complete successfully",
                      "Update client identity completed successfully"))

users_UpdateClientSecret(a, n, d) ==
    Method(Delegate("UpdateClientSecret", <<a.token, a.oldSecret, a.newSecret>>),
           LogOutcome(<<Attr("duration", d),
                        Group("user", <<Attr("id", n.res.ID), Attr("name", n.res.Name)>>)>>,
                      n.err,
                      "Update client secret failed to complete successfully",
                      "Update client secret completed successfully"))

users_GenerateResetToken(a, n, d) ==
    Method(Delegate("GenerateResetToken", <<a.email, a.host>>),
           LogOutcome(<<Attr("duration", d)>>, n.err,
                      "Generate reset token failed to complete successfully",
                      "Generate reset token completed successfully"))

users_ResetSecret(a, n, d) ==
    Method(Delegate("ResetSecret", <<a.token, a.secret>>),
           LogOutcome(<<Attr("duration", d)>>, n.err,
                      "Reset secret failed to complete successfully",
                      "Reset secret completed successfully"))

users_SendPasswordReset(a, n, d) ==
    Method(Delegate("SendPasswordReset", <<a.host, a.email, a.user, a.token>>),
           LogOutcome(<<Attr("duration", d)>>, n.err,
                      "Send password reset failed to complete successfully",
                      "Send password reset completed successfully"))

users_UpdateClientRole(a, n, d) ==
    Method(Delegate("UpdateClientRole", <<a.token, a.client>>),
           LogOutcome(<<Attr("duration", d),
                        Group("user", <<Attr("id", n.res.ID),
                                        Attr("role", RoleString(a.client.Role))>>)>>,
                      n.err,
                      "Update client role failed to complete successfully",
                      "Update client role completed successfully"))

users_EnableClient(a, n, d) ==
    Method(Delegate("EnableClient", <<a.token, a.id>>),
           LogOutcome(<<Attr("duration", d), Attr("id", n.res.ID)>>, n.err,
                      "Enable client failed to complete successfully",
                      "Enable client completed successfully"))

users_DisableClient(a, n, d) ==
    Method(Delegate("DisableClient", <<a.token, a.id>>),
           LogOutcome(<<Attr("duration", d), Attr("id", n.res.ID)>>, n.err,
                      "Disable client failed to complete successfully",
                      "Disable client completed successfully"))

users_ListMembers(a, n, d) ==
    Method(Delegate("ListMembers", <<a.token, a.objectKind, a.objectID, a.cp>>),
           LogOutcome(<<Attr("duration", d),
                        Attr("object_kind", a.objectKind),
                        Attr("object_id", a.objectID),
                        Group("page", <<Attr("limit", a.cp.Limit), Attr("offset", a.cp.Offset)>>)>>,
                      n.err,
                      "List members failed to complete successfully",
                      "List members completed successfully"))

users_Identify(a, n, d) ==
    Method(Delegate("Identify", <<a.token>>),
           LogOutcome(<<Attr("duration", d)>>, n.err,
                      "Identify failed to complete successfully",
                      "Identify completed successfully"))

(***************************************************************************)
(* certs logging middleware.                                               *)
(***************************************************************************)
certs_IssueCert(a, n, d) ==
    Method(Delegate("IssueCert", <<a.token, a.thingID, a.ttl>>),
           IF n.err # Nil
           THEN LogCall(LevelWarn, "Method issue_cert completed" \o " with error.",
                        <<Attr("error", ErrorString(n.err)), Attr("duration", d)>>)
           ELSE LogCall(LevelInfo, "Method issue_cert completed" \o " without errors.",
                        <<Attr("thing_id", a.thingID), Attr("token", a.token), Attr("ttl", a.ttl), Attr("duration", d)>>))

certs_ListCerts(a, n, d) ==
    Method(Delegate("ListCerts", <<a.token, a.thingID, a.offset, a.limit>>),
           IF n.err # Nil
           THEN LogCall(LevelWarn, "Method list_certs completed" \o " with error.",
                        <<Attr("error", ErrorString(n.err)), Attr("duration", d)>>)
           ELSE LogCall(LevelInfo, "Method list_certs completed" \o " without errors.",
                        <<Attr("thing_id", a.thingID), Attr("token", a.token),
                          Attr("offset", a.offset), Attr("limit", a.limit), Attr("duration", d)>>))

certs_ListSerials(a, n, d) ==
    Method(Delegate("ListSerials", <<a.token, a.thingID, a.offset, a.limit>>),
           IF n.err # Nil
           THEN LogCall(LevelWarn, "Method list_serials completed" \o " with error.",
                        <<Attr("error", ErrorString(n.err)), Attr("duration", d)>>)
           ELSE LogCall(LevelInfo, "Method list_serials completed" \o " without errors.",
                        <<Attr("token", a.token), Attr("thing_id", a.thingID),
                          Attr("offset", a.offset), Attr("limit", a.limit), Attr("duration", d)>>))

certs_ViewCert(a, n, d) ==
    Method(Delegate("ViewCert", <<a.token, a.serialID>>),
           IF n.err # Nil
           THEN LogCall(LevelWarn, "Method view_cert completed" \o " with error.",
                        <<Attr("error", ErrorString(n.err)), Attr("duration", d)>>)
           ELSE LogCall(LevelInfo, "Method view_cert completed" \o " without errors.",
                        <<Attr("token", a.token), Attr("serial_id", a.serialID), Attr("duration", d)>>))

certs_RevokeCert(a, n, d) ==
    Method(Delegate("RevokeCert", <<a.token, a.thingID>>),
           IF n.err # Nil
           THEN LogCall(LevelWarn, "Method revoke_cert completed" \o " with error.",
                        <<Attr("error", ErrorString(n.err)), Attr("duration", d)>>)
           ELSE LogCall(LevelInfo, "Method revoke_cert completed" \o " without errors.",
                        <<Attr("token", a.token), Attr("thing_id", a.thingID), Attr("duration", d)>>))

(***************************************************************************)
(* bootstrap logging middleware.                                           *)
(***************************************************************************)
bootstrap_Add(a, n, d) ==
    Method(Delegate("Add", <<a.token, a.cfg>>),
           LogOutcome(<<Attr("duration", d),
                        Attr("thing_id", n.res.ThingID)>>,
                      n.err,
                      "Add failed to complete successfully",
                      "Add completed successfully"))

bootstrap_View(a, n, d) ==
    Method(Delegate("View", <<a.token, a.id>>),
           LogOutcome(<<Attr("duration", d),
                        Attr("thing_id", a.id)>>,
                      n.err,
                      "View failed to complete successfully",
                      "View completed successfully"))

bootstrap_Update(a, n, d) ==
    Method(Delegate("Update", <<a.token, a.cfg>>),
           LogOutcome(<<Attr("duration", d),
                        Attr("thing_id", a.cfg.ThingID)>>,
                      n.err,
                      "Update failed to complete successfully",
                      "Update completed successfully"))

bootstrap_UpdateCert(a, n, d) ==
    Method(Delegate("UpdateCert", <<a.token, a.thingID, a.clientCert, a.clientKey, a.caCert>>),
           LogOutcome(<<Attr("duration", d),
                        Attr("thing_id", n.res.ThingID)>>,
                      n.err,
                      "Update cert failed to complete successfully",
                      "Update cert completed successfully"))

bootstrap_UpdateConnections(a, n, d) ==
    Method(Delegate("UpdateConnections", <<a.token, a.id, a.connections>>),
           LogOutcome(<<Attr("duration", d),
                        Attr("id", a.id)>>,
                      n.err,
                      "Update connections failed to complete successfully",
                      "Update connections completed successfully"))

bootstrap_List(a, n, d) ==
    Method(Delegate("List", <<a.token, a.filter, a.offset, a.limit>>),
           LogOutcome(<<Attr("duration", d),
                        Group("filter", <<Attr("offset", a.offset), Attr("limit", a.limit)>>)>>,
                      n.err,
                      "List failed to complete successfully",
                      "List completed successfully"))

bootstrap_Remove(a, n, d) ==
    Method(Delegate("Remove", <<a.token, a.id>>),
           LogOutcome(<<Attr("duration", d),
                        Attr("id", a.id)>>,
                      n.err,
                      "Remove failed to complete successfully",
                      "Remove completed successfully"))

bootstrap_Bootstrap(a, n, d) ==
    Method(Delegate("Bootstrap", <<a.externalKey, a.externalID, a.secure>>),
           LogOutcome(<<Attr("duration", d),
                        Group("config", <<Attr("external_id", a.externalID)>>)>>,
                      n.err,
                      "Bootstrap failed to complete successfully",
                      "Bootstrap completed successfully"))

bootstrap_ChangeState(a, n, d) ==
    Method(Delegate("ChangeState", <<a.token, a.id, a.state>>),
           LogOutcome(<<Attr("duration", d),
                        Attr("id", a.id),
                        Attr("state", a.state)>>,
                      n.err,
                      "Change state failed to complete successfully",
                      "Change state completed successfully"))

bootstrap_UpdateChannelHandler(a, n, d) ==
    Method(Delegate("UpdateChannelHandler", <<a.channel>>),
           LogOutcome(<<Attr("duration", d),
                        Group("channel", <<Attr("channel_id", a.channel.ID),
                                           Attr("channel_name", a.channel.Name),
                                           Attr("channel_metadata", a.channel.Metadata)>>)>>,
                      n.err,
                      "Update channel handler failed to complete successfully",
                      "Update channel handler completed successfully"))

bootstrap_RemoveConfigHandler(a, n, d) ==
    Method(Delegate("RemoveConfigHandler", <<a.id>>),
           LogOutcome(<<Attr("duration", d),
                        Attr("config_id", a.id)>>,
                      n.err,
                      "Remove config handler failed to complete successfully",
                      "Remove config handler completed successfully"))

bootstrap_RemoveChannelHandler(a, n, d) ==
    Method(Delegate("RemoveChannelHandler", <<a.id>>),
           LogOutcome(<<Attr("duration", d),
                        Attr("id", a.id)>>,
                      n.err,
                      "Remove channel handler failed to complete successfully",
                      "Remove channel handler completed successfully"))

bootstrap_DisconnectThingHandler(a, n, d) ==
    Method(Delegate("DisconnectThingHandler", <<a.channelID, a.thingID>>),
           LogOutcome(<<Attr("duration", d),
                        Attr("channel_id", a.channelID),
                        Attr("thing_id", a.thingID)>>,
                      n.err,
                      "Disconnect thing handler failed to complete successfully",
                      "Disconnect thing handler completed successfully"))

(***************************************************************************)
(* messaging session-handler logging middleware.                           *)
(***************************************************************************)
\* logAction: the deferred closure logs, the body is `return nil`.
handler_logAction(action, topics, n, d) ==
    Method(ReturnNil,
           IF n.err # Nil
           THEN LogCall(LevelWarn, action \o "() failed to complete successfully",
                        <<Attr("duration", d)>>
                        \o (IF ~topics.nil THEN <<Attr("topics", topics.v)>> ELSE <<>>)
                        \o <<Attr("error", ErrorString(n.err))>>)
           ELSE LogCall(LevelInfo, action \o "() completed successfully",
                        <<Attr("duration", d)>>
                        \o (IF ~topics.nil THEN <<Attr("topics", topics.v)>> ELSE <<>>)))

handler_AuthConnect(a, n, d) == handler_logAction("AuthConnect", NilPtr, n, d)

\* &[]string{*topic}: the dereference comes before logAction is entered.
handler_AuthPublish(a, n, d) ==
    IF a.topic.nil THEN NilDeref
    ELSE handler_logAction("AuthPublish", Ptr(<<a.topic.v>>), n, d)

handler_AuthSubscribe(a, n, d) == handler_logAction("AuthSubscribe", a.topics, n, d)

handler_Connect(a, n, d) == handler_logAction("Connect", NilPtr, n, d)

handler_Disconnect(a, n, d) == handler_logAction("Disconnect", NilPtr, n, d)

handler_Publish(a, n, d) ==
    IF a.topic.nil THEN NilDeref
    ELSE handler_logAction("Publish", Ptr(<<a.topic.v>>), n, d)

handler_Subscribe(a, n, d) == handler_logAction("Subscribe", a.topics, n, d)

handler_Unsubscribe(a, n, d) == handler_logAction("Unsubscribe", a.topics, n, d)

(***************************************************************************)
(* The methods of the four middlewares: parameters (after ctx) and the     *)
(* type of the first result, from the method signatures.                   *)
(***************************************************************************)
Sig(svc, op, params, result) == [svc |-> svc, op |-> op, params |-> params, result |-> result]

UsersMethods ==
    { Sig("users", "RegisterClient", <<"token", "client">>, "Client"),
      Sig("users", "IssueToken", <<"identity", "secret", "domainID">>, "Token"),
      Sig("users", "RefreshToken", <<"refreshToken", "domainID">>, "Token"),
      Sig("users", "ViewClient", <<"token", "id">>, "Client"),
      Sig("users", "ViewProfile", <<"token">>, "Client"),
      Sig("users", "ListClients", <<"token", "pm">>, "Page"),
      Sig("users", "UpdateClient", <<"token", "client">>, "Client"),
      Sig("users", "UpdateClientTags", <<"token", "client">>, "Client"),
      Sig("users", "UpdateClientIdentity", <<"token", "id", "identity">>, "Client"),
      Sig("users", "UpdateClientSecret", <<"token", "oldSecret", "newSecret">>, "Client"),
      Sig("users", "GenerateResetToken", <<"email", "host">>, "none"),
      Sig("users", "ResetSecret", <<"token", "secret">>, "none"),
      Sig("users", "SendPasswordReset", <<"host", "email", "user", "token">>, "none"),
      Sig("users", "UpdateClientRole", <<"token", "client">>, "Client"),
      Sig("users", "EnableClient", <<"token", "id">>, "Client"),
      Sig("users", "DisableClient", <<"token", "id">>, "Client"),
      Sig("users", "ListMembers", <<"token", "objectKind", "objectID", "cp">>, "Page"),
      Sig("users", "Identify", <<"token">>, "string") }

CertsMethods ==
    { Sig("certs", "IssueCert", <<"token", "thingID", "ttl">>, "Cert"),
      Sig("certs", "ListCerts", <<"token", "thingID", "offset", "limit">>, "Page"),
      Sig("certs", "ListSerials", <<"token", "thingID", "offset", "limit">>, "Page"),
      Sig("certs", "ViewCert", <<"token", "serialID">>, "Cert"),
      Sig("certs", "RevokeCert", <<"token", "thingID">>, "Revoke") }

BootstrapMethods ==
    { Sig("bootstrap", "Add", <<"token", "cfg">>, "Config"),
      Sig("bootstrap", "View", <<"token", "id">>, "Config"),
      Sig("bootstrap", "Update", <<"token", "cfg">>, "none"),
      Sig("bootstrap", "UpdateCert",
          <<"token", "thingID", "clientCert", "clientKey", "caCert">>, "Config"),
      Sig("bootstrap", "UpdateConnections", <<"token", "id", "connections">>, "none"),
      Sig("bootstrap", "List", <<"token", "filter", "offset", "limit">>, "Page"),
      Sig("bootstrap", "Remove", <<"token", "id">>, "none"),
      Sig("bootstrap", "Bootstrap", <<"externalKey", "externalID", "secure">>, "Config"),
      Sig("bootstrap", "ChangeState", <<"token", "id", "state">>, "none"),
      Sig("bootstrap", "UpdateChannelHandler", <<"channel">>, "none"),
      Sig("bootstrap", "RemoveConfigHandler", <<"id">>, "none"),
      Sig("bootstrap", "RemoveChannelHandler", <<"id">>, "none"),
      Sig("bootstrap", "DisconnectThingHandler", <<"channelID", "thingID">>, "none") }

HandlerMethods ==
    { Sig("handler", "AuthConnect", <<>>, "none"),
      Sig("handler", "AuthPublish", <<"topic", "payload">>, "none"),
      Sig("handler", "AuthSubscribe", <<"topics">>, "none"),
      Sig("handler", "Connect", <<>>, "none"),
      Sig("handler", "Disconnect", <<>>, "none"),
      Sig("handler", "Publish", <<"topic", "payload">>, "none"),
      Sig("handler", "Subscribe", <<"topics">>, "none"),
      Sig("handler", "Unsubscribe", <<"topics">>, "none") }

Methods == UsersMethods \cup CertsMethods \cup BootstrapMethods \cup HandlerMethods

\* The decorator method m applied to arguments a, with named results n.
Decorated(m, a, n, d) ==
    CASE m.op = "RegisterClient"         -> users_RegisterClient(a, n, d)
      [] m.op = "IssueToken"             -> users_IssueToken(a, n, d)
      [] m.op = "RefreshToken"           -> users_RefreshToken(a, n, d)
      [] m.op = "ViewClient"             -> users_ViewClient(a, n, d)
      [] m.op = "ViewProfile"            -> users_ViewProfile(a, n, d)
      [] m.op = "ListClients"            -> users_ListClients(a, n, d)
      [] m.op = "UpdateClient"           -> users_UpdateClient(a, n, d)
      [] m.op = "UpdateClientTags"       -> users_UpdateClientTags(a, n, d)
      [] m.op = "UpdateClientIdentity"   -> users_UpdateClientIdentity(a, n, d)
      [] m.op = "UpdateClientSecret"     -> users_UpdateClientSecret(a, n, d)
      [] m.op = "GenerateResetToken"     -> users_GenerateResetToken(a, n, d)
      [] m.op = "ResetSecret"            -> users_ResetSecret(a, n, d)
      [] m.op = "SendPasswordReset"      -> users_SendPasswordReset(a, n, d)
      [] m.op = "UpdateClientRole"       -> users_UpdateClientRole(a, n, d)
      [] m.op = "EnableClient"           -> users_EnableClient(a, n, d)
      [] m.op = "DisableClient"          -> users_DisableClient(a, n, d)
      [] m.op = "ListMembers"            -> users_ListMembers(a, n, d)
      [] m.op = "Identify"               -> users_Identify(a, n, d)
      [] m.op = "IssueCert"              -> certs_IssueCert(a, n, d)
      [] m.op = "ListCerts"              -> certs_ListCerts(a, n, d)
      [] m.op = "ListSerials"            -> certs_ListSerials(a, n, d)
      [] m.op = "ViewCert"               -> certs_ViewCert(a, n, d)
      [] m.op = "RevokeCert"             -> certs_RevokeCert(a, n, d)
      [] m.op = "Add"                    -> bootstrap_Add(a, n, d)
      [] m.op = "View"                   -> bootstrap_View(a, n, d)
      [] m.op = "Update"                 -> bootstrap_Update(a, n, d)
      [] m.op = "UpdateCert"             -> bootstrap_UpdateCert(a, n, d)
      [] m.op = "UpdateConnections"      -> bootstrap_UpdateConnections(a, n, d)
      [] m.op = "List"                   -> bootstrap_List(a, n, d)
      [] m.op = "Remove"                 -> bootstrap_Remove(a, n, d)
      [] m.op = "Bootstrap"              -> bootstrap_Bootstrap(a, n, d)
      [] m.op = "ChangeState"            -> bootstrap_ChangeState(a, n, d)
      [] m.op = "UpdateChannelHandler"   -> bootstrap_UpdateChannelHandler(a, n, d)
      [] m.op = "RemoveConfigHandler"    -> bootstrap_RemoveConfigHandler(a, n, d)
      [] m.op = "RemoveChannelHandler"   -> bootstrap_RemoveChannelHandler(a, n, d)
      [] m.op = "DisconnectThingHandler" -> bootstrap_DisconnectThingHandler(a, n, d)
      [] m.op = "AuthConnect"            -> handler_AuthConnect(a, n, d)
      [] m.op = "AuthPublish"            -> handler_AuthPublish(a, n, d)
      [] m.op = "AuthSubscribe"          -> handler_AuthSubscribe(a, n, d)
      [] m.op = "Connect"                -> handler_Connect(a, n, d)
      [] m.op = "Disconnect"             -> handler_Disconnect(a, n, d)
      [] m.op = "Publish"                -> handler_Publish(a, n, d)
      [] m.op = "Subscribe"              -> handler_Subscribe(a, n, d)
      [] m.op = "Unsubscribe"            -> handler_Unsubscribe(a, n, d)

(***************************************************************************)
(* Arguments the caller passes and outcomes of the wrapped service.        *)
(***************************************************************************)
Range(f) == {f[i] : i \in DOMAIN f}

\* Parameters that carry a credential.
Credentials ==
    {"token", "secret", "oldSecret", "newSecret", "refreshToken", "clientKey", "externalKey"}

Str(p, v) == IF v = 0 THEN "" ELSE p \o "-" \o ToString(v)

\* The value of parameter p in variant v; variant 0 is the zero value.
Val(p, v) ==
    CASE p = "client" ->
            [ID |-> Str("id", v), Name |-> Str("name", v), Role |-> IF v = 2 THEN 1 ELSE 0,
             Tags |-> IF v = 0 THEN <<>> ELSE <<Str("tag", v)>>,
             Metadata |-> IF v = 0 THEN <<>> ELSE <<Str("meta", v)>>]
      [] p \in {"pm", "cp"} -> [Limit |-> 10 * v, Offset |-> v]
      [] p = "cfg" -> [ThingID |-> Str("thing", v), Name |-> Str("name", v)]
      [] p = "channel" ->
            [ID |-> Str("channel", v), Name |-> Str("name", v),
             Metadata |-> IF v = 0 THEN <<>> ELSE <<Str("meta", v)>>]
      [] p = "offset" -> v
      [] p = "limit" -> 10 * v
      [] p = "secure" -> (v = 1)
      [] p = "state" -> v % 2
      [] p = "connections" -> IF v = 0 THEN <<>> ELSE <<Str("channel", v)>>
      [] p \in {"topic", "payload"} -> IF v = 0 THEN NilPtr ELSE Ptr(Str(p, v))
      [] p = "topics" ->
            IF v = 0 THEN NilPtr
            ELSE IF v = 1 THEN Ptr(<<Str("topic", 1)>>)
            ELSE Ptr(<<Str("topic", 1), Str("topic", 2)>>)
      [] OTHER -> Str(p, v)

ArgsOf(m) ==
    { [p \in Range(m.params) |-> Val(p, IF p \in Credentials THEN vc ELSE vo)] :
        vo \in 0..2, vc \in 1..2 }

\* The arguments in the order of the signature.
ArgTuple(m, a) == [i \in 1..Len(m.params) |-> a[m.params[i]]]

\* The zero value of a result type.
ZeroOf(kind) ==
    CASE kind = "Client" -> [ID |-> "", Name |-> "", Tags |-> <<>>, Metadata |-> <<>>]
      [] kind = "Token"  -> NilPtr
      [] kind = "Config" -> [ThingID |-> "", Name |-> ""]
      [] kind = "Page"   -> [Total |-> 0]
      [] kind = "Cert"   -> [Serial |-> ""]
      [] kind = "Revoke" -> [RevocationTime |-> 0]
      [] kind = "string" -> ""
      [] kind = "none"   -> Nil

\* A populated value of a result type.
SomeOf(kind) ==
    CASE kind = "Client" -> {[ID |-> "c-1", Name |-> "alice", Tags |-> <<"t1", "t2">>,
                              Metadata |-> <<"k">>]}
      [] kind = "Token"  -> {Ptr([AccessType |-> "Bearer"]), Ptr([AccessType |-> ""])}
      [] kind = "Config" -> {[ThingID |-> "th-1", Name |-> "cfg"]}
      [] kind = "Page"   -> {[Total |-> 1]}
      [] kind = "Cert"   -> {[Serial |-> "s-1"]}
      [] kind = "Revoke" -> {[RevocationTime |-> 1]}
      [] kind = "string" -> {"u-1"}
      [] kind = "none"   -> {Nil}

\* What a failing service leaves in its first result.
FailedOf(kind) ==
    IF kind = "Token" THEN {NilPtr, Ptr([AccessType |-> ""])} ELSE {ZeroOf(kind)}

Returned(res, err) == [kind |-> "return", res |-> res, err |-> err]
\* A panic leaves no result; res is the zero value of the result type.
Panicked(kind) == [kind |-> "panic", res |-> ZeroOf(kind), err |-> Nil]
NoOutcome == [kind |-> Nil, res |-> Nil, err |-> Nil]

\* The outcomes of a wrapped operation: a result, a failure, or a panic.
OutcomesOf(kind) ==
    {Returned(r, Nil) : r \in SomeOf(kind)}
    \cup {Returned(r, e) : r \in FailedOf(kind), e \in Errs}
    \cup {Panicked(kind)}

(***************************************************************************)
(* One decorator call.                                                     *)
(***************************************************************************)
NoMethod == Sig(Nil, Nil, <<>>, "none")

IdleCall ==
    [pc       |-> "idle",     \* idle, started, delegated, recorded, panicked, done
     m        |-> NoMethod,   \* the decorator method called
     a        |-> <<>>,       \* its arguments
     begin    |-> 0,          \* time.Now() when the defer statement ran
     named    |-> [res |-> Nil, err |-> Nil],  \* the named results
     invoked  |-> <<>>,       \* the calls made on the wrapped service
     svcOut   |-> NoOutcome,  \* what the wrapped service did
     emitted  |-> 0,          \* records this call handed to the handler's writer
     sinkErr  |-> FALSE,      \* the Write of its record failed
     rec      |-> 0,          \* index in the sink of the record it wrote
     observed |-> NoOutcome]  \* what the caller got

\* The caller enters decorator method m with arguments a: the arguments of the
\* inner call are evaluated, then the defer statement takes time.Now().
Start(id, m, a) ==
    /\ lpc = "ready" /\ logger.kind = "slog"
    /\ calls[id].pc = "idle"
    /\ LET zero == [res |-> ZeroOf(m.result), err |-> Nil]
           meth == Decorated(m, a, zero, DurationString(0))
       IN  calls' = [calls EXCEPT ![id] =
                IF meth.entryPanic
                THEN [@ EXCEPT !.pc = "done", !.m = m, !.a = a, !.named = zero,
                               !.observed = Panicked(m.result)]
                ELSE [@ EXCEPT !.pc = "started", !.m = m, !.a = a, !.begin = clock,
                               !.named = zero]]
    /\ UNCHANGED <<main, writer, levelText, impl, lpc, logger, newErr, lastOp, sink, clock>>

\* The return statement of the method: the wrapped operation runs for dt
\* ticks and returns or panics, or the statement is `return nil`.
ReturnStmt(id) ==
    /\ calls[id].pc = "started"
    /\ LET c    == calls[id]
           body == Decorated(c.m, c.a, c.named, DurationString(0)).body
       IN  IF body.kind = "delegate"
           THEN \E out \in OutcomesOf(c.m.result), dt \in 0..1 :
                  /\ clock + dt <= MaxClock
                  /\ clock' = clock + dt
                  /\ calls' = [calls EXCEPT ![id] =
                        [@ EXCEPT !.pc = "delegated",
                                  !.invoked = Append(@, [op |-> body.op, args |-> body.args]),
                                  !.svcOut = out,
                                  !.named = IF out.kind = "return"
                                            THEN [res |-> out.res, err |-> out.err]
                                            ELSE @]]
           ELSE /\ clock' = clock
                /\ calls' = [calls EXCEPT ![id] =
                        [@ EXCEPT !.pc = "delegated", !.named = [res |-> Nil, err |-> Nil]]]
    /\ UNCHANGED <<main, writer, levelText, impl, lpc, logger, newErr, lastOp, sink>>

\* The deferred closure: it builds the attributes from the named results and
\* calls logger.Warn or logger.Info, or it panics on a nil dereference.
Deferred(id) ==
    /\ calls[id].pc = "delegated"
    /\ \E ok \in WriteResults :
        LET c   == calls[id]
            o   == Decorated(c.m, c.a, c.named, DurationString(clock - c.begin)).deferred
            try == IF o.panic THEN sink
                   ELSE slogLog(logger, sink, clock, o.level, o.msg, o.args)
            out == WriterWrite(sink, try, ok)
        IN  /\ sink' = out
            /\ writer' = WriterAfter(sink, try, ok)
            /\ calls' = [calls EXCEPT ![id] =
                  IF o.panic
                  THEN [@ EXCEPT !.pc = "panicked"]
                  ELSE [@ EXCEPT !.pc = "recorded",
                                 !.emitted = @ + (Len(try) - Len(sink)),
                                 !.sinkErr = (try # out),
                                 !.rec = IF Len(out) > Len(sink) THEN Len(out) ELSE 0]]
    /\ UNCHANGED <<main, levelText, impl, lpc, logger, newErr, lastOp, clock>>

\* Exit handing the error of the failed Write to the caller.
Exit_ReturnsSinkError(id) ==
    /\ calls[id].pc \in {"recorded", "panicked"}
    /\ LET c == calls[id]
       IN  calls' = [calls EXCEPT ![id] =
              [c EXCEPT !.pc = "done",
                        !.observed = IF c.pc = "panicked" \/ c.svcOut.kind = "panic"
                                     THEN Panicked(c.m.result)
                                     ELSE Returned(c.named.res,
                                                   IF c.sinkErr THEN "ErrShortWrite"
                                                   ELSE c.named.err)]]
    /\ UNCHANGED <<main, writer, levelText, impl, lpc, logger, newErr, lastOp, sink, clock>>

\* Control leaves the method: the caller gets the named results, or the panic
\* of the wrapped operation or of the deferred closure.
Exit(id) ==
    /\ calls[id].pc \in {"recorded", "panicked"}
    /\ LET c == calls[id]
       IN  calls' = [calls EXCEPT ![id] =
              [c EXCEPT !.pc = "done",
                        !.observed = IF c.pc = "panicked" \/ c.svcOut.kind = "panic"
                                     THEN Panicked(c.m.result)
                                     ELSE Returned(c.named.res, c.named.err)]]
    /\ UNCHANGED <<main, writer, levelText, impl, lpc, logger, newErr, lastOp, sink, clock>>

(***************************************************************************)
(* The client of package logger: it constructs a logger from a level text  *)
(* and calls its operations.                                               *)
(***************************************************************************)
NoOp == [n |-> 0, op |-> Nil, msg |-> "", before |-> 0]

\* logger, err := New(os.Stdout, levelText) of slogger.go.
NewSlogger ==
    /\ lpc = "init" /\ impl = "slogger"
    /\ LET r == slogger_New(levelText)
       IN  /\ logger' = r.logger
           /\ newErr' = r.err
           /\ lpc' = IF r.err.nil THEN "ready" ELSE "failed"
    /\ UNCHANGED <<main, writer, levelText, impl, lastOp, sink, clock, calls>>

\* logger, err := New(os.Stdout, levelText) of logger.go.
NewSlog ==
    /\ lpc = "init" /\ impl = "slog"
    /\ LET r == logger_New(levelText)
       IN  /\ logger' = r.logger
           /\ newErr' = r.err
           /\ lpc' = IF r.err.nil THEN "ready" ELSE "failed"
    /\ UNCHANGED <<main, writer, levelText, impl, lastOp, sink, clock, calls>>

Logged(op, msg) == [n |-> lastOp.n + 1, op |-> op, msg |-> msg, before |-> Len(sink)]

CallDebug(msg) ==
    /\ lpc = "ready" /\ logger.kind = "facade" /\ lastOp.n < MaxLogCalls
    /\ \E ok \in WriteResults :
         /\ sink' = WriterWrite(sink, logger_Debug(logger, sink, clock, msg), ok)
         /\ writer' = WriterAfter(sink, logger_Debug(logger, sink, clock, msg), ok)
    /\ lastOp' = Logged("Debug", msg)
    /\ UNCHANGED <<main, levelText, impl, lpc, logger, newErr, clock, calls>>

CallInfo(msg) ==
    /\ lpc = "ready" /\ logger.kind = "facade" /\ lastOp.n < MaxLogCalls
    /\ \E ok \in WriteResults :
         /\ sink' = WriterWrite(sink, logger_Info(logger, sink, clock, msg), ok)
         /\ writer' = WriterAfter(sink, logger_Info(logger, sink, clock, msg), ok)
    /\ lastOp' = Logged("Info", msg)
    /\ UNCHANGED <<main, levelText, impl, lpc, logger, newErr, clock, calls>>

CallWarn(msg) ==
    /\ lpc = "ready" /\ logger.kind = "facade" /\ lastOp.n < MaxLogCalls
    /\ \E ok \in WriteResults :
         /\ sink' = WriterWrite(sink, logger_Warn(logger, sink, clock, msg), ok)
         /\ writer' = WriterAfter(sink, logger_Warn(logger, sink, clock, msg), ok)
    /\ lastOp' = Logged("Warn", msg)
    /\ UNCHANGED <<main, levelText, impl, lpc, logger, newErr, clock, calls>>

CallError(msg) ==
    /\ lpc = "ready" /\ logger.kind = "facade" /\ lastOp.n < MaxLogCalls
    /\ \E ok \in WriteResults :
         /\ sink' = WriterWrite(sink, logger_Error(logger, sink, clock, msg), ok)
         /\ writer' = WriterAfter(sink, logger_Error(logger, sink, clock, msg), ok)
    /\ lastOp' = Logged("Error", msg)
    /\ UNCHANGED <<main, levelText, impl, lpc, logger, newErr, clock, calls>>

\* slog.Logger.Debug/Info/Warn/Error on the logger logger.go's New returned.
SlogOpLevel(op) ==
    CASE op = "Debug" -> LevelDebug
      [] op = "Info"  -> LevelInfo
      [] op = "Warn"  -> LevelWarn
      [] op = "Error" -> LevelError

CallSlog(op, msg) ==
    /\ lpc = "ready" /\ logger.kind = "slog" /\ lastOp.n < MaxLogCalls
    /\ \E ok \in WriteResults :
         /\ sink' = WriterWrite(sink, slogLog(logger, sink, clock, SlogOpLevel(op), msg, <<>>), ok)
         /\ writer' = WriterAfter(sink, slogLog(logger, sink, clock, SlogOpLevel(op), msg, <<>>), ok)
    /\ lastOp' = Logged(op, msg)
    /\ UNCHANGED <<main, levelText, impl, lpc, logger, newErr, clock, calls>>

\* Time passes.
Tick ==
    /\ clock < MaxClock
    /\ clock' = clock + 1
    /\ UNCHANGED <<main, writer, levelText, impl, lpc, logger, newErr, lastOp, sink, calls>>

(***************************************************************************)
(* cmd/cassandra-writer: main.  Calls into packages outside the repository *)
(* (env, uuid, cassandra, jaeger, brokers, consumers, the mainflux logger) *)
(* succeed or fail, the choice being the environment's.                    *)
(***************************************************************************)
\* main before its first statement; cfg holds the fields of config read later.
MainEntry(instanceID, sendTelemetry) ==
    [pc         |-> "parseEnv",
     cfg        |-> [InstanceID |-> instanceID, SendTelemetry |-> sendTelemetry],
     exitCode   |-> 0,
     chLogger   |-> "unset",  \* chClientLogger: unset, "ok", or Nil
     created    |-> {},       \* what main has constructed or started
     deferred   |-> <<>>,     \* the defer stack, last pushed last
     released   |-> <<>>,     \* deferred releases that have run, in order
     stderr     |-> <<>>,     \* lines written by package log
     status     |-> -1]       \* exit status once the process has exited, -1 before
\* A state of the model in which main is not run.
MainOff == [MainEntry("", FALSE) EXCEPT !.pc = "off"]

\* log.Fatalf(format, ...): one line on standard error, then os.Exit(1);
\* deferred functions do not run.
Fatalf(mn, line) ==
    [mn EXCEPT !.pc = "exited", !.stderr = Append(@, line), !.status = 1]

\* logger.Error(ctx, msg); exitCode = 1; return
FailAndReturn(mn) == [mn EXCEPT !.pc = "return", !.exitCode = 1]

\* env.Parse(&cfg), lines 57-60.
MainParseEnv(ok) ==
    /\ main.pc = "parseEnv"
    /\ main' = IF ok THEN [main EXCEPT !.pc = "newLogger"]
               ELSE Fatalf(main, "failed to load cassandra-writer configuration")
    /\ UNCHANGED <<writer, levelText, impl, lpc, logger, newErr, lastOp, sink, clock, calls>>

\* logger, err := mglog.New(os.Stdout, cfg.LogLevel), lines 62-66.
MainNewLogger ==
    /\ main.pc = "newLogger"
    /\ LET r == slogger_New(levelText)
       IN  /\ logger' = r.logger
           /\ newErr' = r.err
           /\ main' = IF r.err.nil THEN [main EXCEPT !.pc = "newChLogger"]
                      ELSE Fatalf(main, "failed to init logger")
    /\ UNCHANGED <<writer, levelText, impl, lpc, lastOp, sink, clock, calls>>

\* chClientLogger, err = mflog.New(os.Stdout, cfg.LogLevel), lines 68-72: on
\* an error the error is logged and main goes on with a nil chClientLogger.
MainNewChLogger(ok) ==
    /\ main.pc = "newChLogger"
    /\ main' = [main EXCEPT !.pc = "instanceID", !.chLogger = IF ok THEN "ok" ELSE Nil]
    /\ sink' = IF ok THEN sink
               ELSE logger_Error(logger, sink, clock, "failed to create logger")
    /\ UNCHANGED <<writer, levelText, impl, lpc, logger, newErr, lastOp, clock, calls>>

\* Lines 74-83: defer ExitWithError(&exitCode); the instance id is generated
\* when the configuration has none.
MainInstanceID(ok) ==
    /\ main.pc = "instanceID"
    /\ IF main.cfg.InstanceID # "" \/ ok
       THEN /\ main' = [main EXCEPT !.pc = "httpConfig", !.cfg.InstanceID = "instance-1"]
            /\ sink' = sink
       ELSE /\ main' = FailAndReturn(main)
            /\ sink' = logger_Error(logger, sink, clock, "failed to generate instanceID")
    /\ UNCHANGED <<writer, levelText, impl, lpc, logger, newErr, lastOp, clock, calls>>

\* env.ParseWithOptions(&httpServerConfig, ...), lines 85-90.
MainHTTPConfig(ok) ==
    /\ main.pc = "httpConfig"
    /\ IF ok
       THEN main' = [main EXCEPT !.pc = "setupDB"] /\ sink' = sink
       ELSE /\ main' = FailAndReturn(main)
            /\ sink' = logger_Error(logger, sink, clock,
                                    "failed to load cassandra-writer HTTP server configuration")
    /\ UNCHANGED <<writer, levelText, impl, lpc, logger, newErr, lastOp, clock, calls>>

\* cassandraclient.SetupDB and defer csdSession.Close(), lines 93-99.
MainSetupDB(ok) ==
    /\ main.pc = "setupDB"
    /\ IF ok
       THEN /\ main' = [main EXCEPT !.pc = "jaeger",
                                    !.created = @ \cup {"csdSession"},
                                    !.deferred = Append(@, "csdSession.Close")]
            /\ sink' = sink
       ELSE /\ main' = FailAndReturn(main)
            /\ sink' = logger_Error(logger, sink, clock, "failed to connect to cassandra")
    /\ UNCHANGED <<writer, levelText, impl, lpc, logger, newErr, lastOp, clock, calls>>

\* jaegerclient.NewProvider and the deferred tp.Shutdown, lines 101-112.
MainJaeger(ok) ==
    /\ main.pc = "jaeger"
    /\ IF ok
       THEN /\ main' = [main EXCEPT !.pc = "newService",
                                    !.created = @ \cup {"tp"},
                                    !.deferred = Append(@, "tp.Shutdown")]
            /\ sink' = sink
       ELSE /\ main' = FailAndReturn(main)
            /\ sink' = logger_Error(logger, sink, clock, "Failed to init Jaeger")
    /\ UNCHANGED <<writer, levelText, impl, lpc, logger, newErr, lastOp, clock, calls>>

\* repo := newService(csdSession, logger), lines 115-116 and 156-162.
MainNewService ==
    /\ main.pc = "newService"
    /\ main' = [main EXCEPT !.pc = "pubSub", !.created = @ \cup {"repo"}]
    /\ UNCHANGED <<writer, levelText, impl, lpc, logger, newErr, lastOp, sink, clock, calls>>

\* brokers.NewPubSub and defer pubSub.Close(), lines 119-126.
MainPubSub(ok) ==
    /\ main.pc = "pubSub"
    /\ IF ok
       THEN /\ main' = [main EXCEPT !.pc = "consumer",
                                    !.created = @ \cup {"pubSub"},
                                    !.deferred = Append(@, "pubSub.Close")]
            /\ sink' = sink
       ELSE /\ main' = FailAndReturn(main)
            /\ sink' = logger_Error(logger, sink, clock, "failed to connect to message broker")
    /\ UNCHANGED <<writer, levelText, impl, lpc, logger, newErr, lastOp, clock, calls>>

\* consumers.Start subscribes the repository to the broker, lines 129-133.
MainConsumer(ok) ==
    /\ main.pc = "consumer"
    /\ IF ok
       THEN /\ main' = [main EXCEPT !.pc = "serve", !.created = @ \cup {"subscription"}]
            /\ sink' = sink
       ELSE /\ main' = FailAndReturn(main)
            /\ sink' = logger_Error(logger, sink, clock, "Failed to create Cassandra writer")
    /\ UNCHANGED <<writer, levelText, impl, lpc, logger, newErr, lastOp, clock, calls>>

\* Lines 135-149: the HTTP server, the call-home client when telemetry is on
\* (it is handed chClientLogger), and the two goroutines of the group.
MainServe ==
    /\ main.pc = "serve"
    /\ main' = [main EXCEPT !.pc = "wait",
                            !.created = @ \cup {"httpServer"}
                                          \cup (IF main.cfg.SendTelemetry
                                                THEN {"callHome"} ELSE {})]
    /\ UNCHANGED <<writer, levelText, impl, lpc, logger, newErr, lastOp, sink, clock, calls>>

\* g.Wait(), lines 151-153: an error of the group is logged; main returns.
MainWait(ok) ==
    /\ main.pc = "wait"
    /\ main' = [main EXCEPT !.pc = "return"]
    /\ sink' = IF ok THEN sink
               ELSE logger_Error(logger, sink, clock, "Cassandra writer service terminated")
    /\ UNCHANGED <<writer, levelText, impl, lpc, logger, newErr, lastOp, clock, calls>>

\* main returns: the deferred calls run, last deferred first; a failing
\* tp.Shutdown is logged (lines 107-111).
MainDeferred(ok) ==
    /\ main.pc = "return" /\ main.deferred # <<>>
    /\ LET f == main.deferred[Len(main.deferred)]
       IN  /\ main' = [main EXCEPT !.deferred = SubSeq(@, 1, Len(@) - 1),
                                   !.released = Append(@, f)]
           /\ sink' = IF f = "tp.Shutdown" /\ ~ok
                      THEN logger_Error(logger, sink, clock,
                                        "Error shutting down tracer provider")
                      ELSE sink
    /\ UNCHANGED <<writer, levelText, impl, lpc, logger, newErr, lastOp, clock, calls>>

\* The first deferred call, mglog.ExitWithError(&exitCode), runs last and
\* ends the process with exitCode (line 75).
ExitWithError ==
    /\ main.pc = "return" /\ main.deferred = <<>>
    /\ main' = [main EXCEPT !.pc = "exited", !.status = main.exitCode]
    /\ UNCHANGED <<writer, levelText, impl, lpc, logger, newErr, lastOp, sink, clock, calls>>

(***************************************************************************)
(* Specifications.                                                         *)
(***************************************************************************)
OpNames == {"Debug", "Info", "Warn", "Error"}

\* The logger: New on any level text, then operations on the logger.
InitLogger ==
    /\ levelText \in LevelTexts
    /\ impl \in {"slogger", "slog"}
    /\ lpc = "init"
    /\ logger = NilLogger
    /\ newErr = NoError
    /\ lastOp = NoOp
    /\ sink = <<>>
    /\ clock = 0
    /\ calls = [id \in {1} |-> IdleCall]
    /\ writer = [mayFail |-> FALSE, errs |-> 0]
    /\ main = MainOff

NextLogger ==
    \/ NewSlogger
    \/ NewSlog
    \/ \E msg \in Msgs : CallDebug(msg)
    \/ \E msg \in Msgs : CallInfo(msg)
    \/ \E msg \in Msgs : CallWarn(msg)
    \/ \E msg \in Msgs : CallError(msg)
    \/ \E op \in OpNames, msg \in Msgs : CallSlog(op, msg)
    \/ Tick

SpecLogger == InitLogger /\ [][NextLogger]_vars

\* The middlewares: one instrumented call on a *slog.Logger that logger.go's
\* New built from one of the four level names.
Init ==
    /\ levelText \in CanonicalTexts
    /\ impl = "slog"
    /\ lpc = "ready"
    /\ logger = logger_New(levelText).logger
    /\ newErr = logger_New(levelText).err
    /\ lastOp = NoOp
    /\ sink = <<>>
    /\ clock = 0
    /\ calls = [id \in {1} |-> IdleCall]
    /\ writer = [mayFail |-> FALSE, errs |-> 0]
    /\ main = MainOff

Next ==
    \/ \E id \in DOMAIN calls : \E m \in Methods : \E a \in ArgsOf(m) : Start(id, m, a)
    \/ \E id \in DOMAIN calls : ReturnStmt(id)
    \/ \E id \in DOMAIN calls : Deferred(id)
    \/ \E id \in DOMAIN calls : Exit(id)

Spec == Init /\ [][Next]_vars

\* Concurrent callers: MaxCalls goroutines, each making one instrumented call
\* of one decorator of each kind, on one logger that admits Info and Warn.
ConcMethods ==
    {m \in Methods : m.op \in {"RegisterClient", "IssueToken", "IssueCert", "AuthConnect"}}

\* Each caller passes one of two populated argument lists.
ConcArgsOf(m) == {[p \in Range(m.params) |-> Val(p, v)] : v \in 1..2}

InitConc ==
    /\ levelText = <<"i", "n", "f", "o">>
    /\ impl = "slog"
    /\ lpc = "ready"
    /\ logger = logger_New(levelText).logger
    /\ newErr = logger_New(levelText).err
    /\ lastOp = NoOp
    /\ sink = <<>>
    /\ clock = 0
    /\ calls = [id \in 1..MaxCalls |-> IdleCall]
    /\ writer = [mayFail |-> FALSE, errs |-> 0]
    /\ main = MainOff

NextConc ==
    \/ \E id \in DOMAIN calls : \E m \in ConcMethods : \E a \in ConcArgsOf(m) : Start(id, m, a)
    \/ \E id \in DOMAIN calls : ReturnStmt(id)
    \/ \E id \in DOMAIN calls : Deferred(id)
    \/ \E id \in DOMAIN calls : Exit(id)

SpecConc == InitConc /\ [][NextConc]_vars

\* A sink whose Write may fail: the Logger facade of slogger.go, or one
\* instrumented call on the *slog.Logger of logger.go.
InitSink ==
    /\ levelText \in CanonicalTexts
    /\ impl \in {"slogger", "slog"}
    /\ lpc = "init"
    /\ logger = NilLogger
    /\ newErr = NoError
    /\ lastOp = NoOp
    /\ sink = <<>>
    /\ clock = 0
    /\ calls = [id \in {1} |-> IdleCall]
    /\ writer = [mayFail |-> TRUE, errs |-> 0]
    /\ main = MainOff

NextSink ==
    \/ NewSlogger
    \/ NewSlog
    \/ \E msg \in Msgs : CallDebug(msg)
    \/ \E msg \in Msgs : CallInfo(msg)
    \/ \E msg \in Msgs : CallWarn(msg)
    \/ \E msg \in Msgs : CallError(msg)
    \/ \E id \in DOMAIN calls : \E m \in Methods : \E a \in ArgsOf(m) : Start(id, m, a)
    \/ \E id \in DOMAIN calls : ReturnStmt(id)
    \/ \E id \in DOMAIN calls : Deferred(id)
    \/ \E id \in DOMAIN calls : Exit(id)

SpecSink == InitSink /\ [][NextSink]_vars

\* cassandra-writer's main on any level text of the configuration.
InitMain ==
    /\ levelText \in LevelTexts
    /\ impl = "slogger"
    /\ lpc = "init"
    /\ logger = NilLogger
    /\ newErr = NoError
    /\ lastOp = NoOp
    /\ sink = <<>>
    /\ clock = 0
    /\ calls = [id \in {1} |-> IdleCall]
    /\ writer = [mayFail |-> FALSE, errs |-> 0]
    /\ \E id \in {"", "instance-1"}, t \in BOOLEAN : main = MainEntry(id, t)

NextMain ==
    \/ \E ok \in BOOLEAN : MainParseEnv(ok)
    \/ MainNewLogger
    \/ \E ok \in BOOLEAN : MainNewChLogger(ok)
    \/ \E ok \in BOOLEAN : MainInstanceID(ok)
    \/ \E ok \in BOOLEAN : MainHTTPConfig(ok)
    \/ \E ok \in BOOLEAN : MainSetupDB(ok)
    \/ \E ok \in BOOLEAN : MainJaeger(ok)
    \/ MainNewService
    \/ \E ok \in BOOLEAN : MainPubSub(ok)
    \/ \E ok \in BOOLEAN : MainConsumer(ok)
    \/ MainServe
    \/ \E ok \in BOOLEAN : MainWait(ok)
    \/ \E ok \in BOOLEAN : MainDeferred(ok)
    \/ ExitWithError

SpecMain == InitMain /\ [][NextMain]_vars

(***************************************************************************)
(* Properties.                                                             *)
(***************************************************************************)
CallIds == DOMAIN calls

\* The logger's threshold lets Info and Warn records through.
AdmitsInfoAndWarn == Enabled(logger, LevelInfo) /\ Enabled(logger, LevelWarn)

\* The record call c wrote.
RecordOf(c) == sink[c.rec]

\* The top-level keys of a record's attributes.
Keys(attrs) == {attrs[i].key : i \in DOMAIN attrs}

IsGroup(attr) == "group" \in DOMAIN attr

HasAttr(attrs, k, v) ==
    \E i \in DOMAIN attrs : attrs[i].key = k /\ ~IsGroup(attrs[i]) /\ attrs[i].value = v

\* The keys of a record's attributes, those nested in a group as group.key.
KeyPaths(attrs) ==
    Keys(attrs)
    \cup UNION { {attrs[i].key \o "." \o attrs[i].group[j].key : j \in DOMAIN attrs[i].group} :
                    i \in {k \in DOMAIN attrs : IsGroup(attrs[k])} }

\* C1: for every operation of every logging decorator and every input, the
\* (result, error) pair the caller gets is the pair the wrapped service's
\* same-named operation returned for those arguments; the decorator never
\* replaces, masks or invents an outcome.
C1_ReturnsWrappedOutcome ==
    \A id \in CallIds :
        LET c == calls[id]
        IN  (c.pc = "done" /\ c.observed.kind = "return")
            => /\ c.svcOut.kind = "return"
               /\ Len(c.invoked) = 1
               /\ c.invoked[1].op = c.m.op
               /\ c.observed.err = c.svcOut.err
               /\ c.observed.res = c.svcOut.res

\* C2: with a logger whose threshold admits Info and Warn, every intercepted
\* decorator call emits exactly one log record, whether the wrapped operation
\* succeeds or fails (a nil pointer result included); never zero, never more.
C2_ExactlyOneRecord ==
    \A id \in CallIds :
        LET c == calls[id]
        IN  /\ c.emitted <= 1
            /\ (c.pc = "done" /\ AdmitsInfoAndWarn /\ c.svcOut.kind = "return")
               => c.emitted = 1

\* C3: every instrumented call goes started -> delegated -> recorded: the
\* decorator invokes the wrapped service's same-named operation exactly once
\* with the original arguments, and the record is emitted only after that
\* call has returned; this holds for the messaging handler's operations too.
C3_DelegatesOnceBeforeRecord ==
    \A id \in CallIds :
        LET c == calls[id]
        IN  /\ (c.pc \in {"delegated", "recorded"} \/ c.emitted > 0)
               => /\ Len(c.invoked) = 1
                  /\ c.invoked[1].op = c.m.op
                  /\ c.invoked[1].args = ArgTuple(c.m, c.a)
            /\ c.pc = "started" => (c.invoked = <<>> /\ c.emitted = 0)

\* C4: severity and the error attribute follow the wrapped call's outcome: a
\* nil error gives one Info record with `duration` and no `error`; a non-nil
\* error gives one Warn record with `duration` and an `error` describing it.
C4_SeverityFollowsOutcome ==
    \A id \in CallIds :
        LET c == calls[id]
        IN  (c.pc = "done" /\ AdmitsInfoAndWarn /\ c.svcOut.kind = "return")
            => /\ c.emitted = 1
               /\ "duration" \in Keys(RecordOf(c).attrs)
               /\ IF c.svcOut.err = Nil
                  THEN /\ RecordOf(c).level = SlogLevelString(LevelInfo)
                       /\ "error" \notin Keys(RecordOf(c).attrs)
                  ELSE /\ RecordOf(c).level = SlogLevelString(LevelWarn)
                       /\ HasAttr(RecordOf(c).attrs, "error", ErrorString(c.svcOut.err))

\* C5: the decorator itself never fails: for every operation and every outcome
\* of the wrapped service (a failure returning a nil pointer result and nil
\* pointer arguments included) building and emitting the record does not
\* panic, so every failure the caller sees originated in the wrapped service.
C5_DecoratorNeverFails ==
    \A id \in CallIds :
        LET c == calls[id]
        IN  /\ c.pc # "panicked"
            /\ (c.pc = "done" /\ c.observed.kind = "panic") => c.svcOut.kind = "panic"

\* The rank of a severity in the order Debug < Info < Warn < Error.
OpRank(op) ==
    CASE op = "Debug" -> 0
      [] op = "Info"  -> 1
      [] op = "Warn"  -> 2
      [] op = "Error" -> 3

\* The logger's threshold is one of the four levels; its rank.
ThresholdIsLevel ==
    /\ lpc = "ready"
    /\ IF logger.kind = "facade" THEN logger.level \in Levels ELSE logger.level \in SlogLevels

ThresholdRank ==
    IF logger.kind = "facade"
    THEN CASE logger.level = Debug -> 0 [] logger.level = Info -> 1
           [] logger.level = Warn -> 2 [] logger.level = Error -> 3
    ELSE CASE logger.level = LevelDebug -> 0 [] logger.level = LevelInfo -> 1
           [] logger.level = LevelWarn -> 2 [] logger.level = LevelError -> 3

\* The number of records the last Logger operation wrote.
Written == Len(sink) - lastOp.before

\* C6: for every pair (severity s of the operation, threshold t) over Debug <
\* Info < Warn < Error, a call to the logger operation of severity s writes
\* exactly one record to the sink if s >= t and nothing if s < t.
C6_ThresholdFilters ==
    (lastOp.n > 0 /\ ThresholdIsLevel)
    => Written = (IF OpRank(lastOp.op) >= ThresholdRank THEN 1 ELSE 0)

\* C6 witness: threshold Warn, an earlier warn or error wrote one line and a
\* debug or info call then wrote nothing.
C6_Witness ==
    /\ lastOp.n = 2 /\ ThresholdIsLevel /\ ThresholdRank = 2
    /\ lastOp.op \in {"Debug", "Info"}
    /\ Len(sink) = 1 /\ Written = 0

\* C9: for each of the four Logger operations, when the call passes the
\* threshold the record written has `level` equal to the severity of the
\* operation invoked and `msg` equal to the message the caller passed, with no
\* attribute invented by the logger.
C9_RecordCarriesLevelAndMessage ==
    (lastOp.n > 0 /\ logger.kind = "facade" /\ Written = 1)
    => /\ sink[Len(sink)].level = SlogLevelString(SlogOpLevel(lastOp.op))
       /\ sink[Len(sink)].msg = lastOp.msg
       /\ sink[Len(sink)].attrs = <<>>

\* C10: New(sink, levelText) succeeds if and only if levelText, compared
\* case-insensitively, is exactly one of "debug", "info", "warn", "error"; for
\* every other text (a level name with a numeric offset, the empty string) it
\* returns an error and no logger that can be used.
C10_NewAcceptsExactlyTheFourNames ==
    lpc # "init"
    => /\ (lpc = "ready") <=> (ToLower(levelText) \in CanonicalTexts)
       /\ lpc = "ready" => (newErr.nil /\ logger.kind \in {"facade", "slog"})
       /\ lpc = "failed" =>
            /\ ~newErr.nil
            /\ logger = NilLogger \/ logger = ZeroSlogLogger

\* The record the decorator method of call c builds when the wrapped
\* operation returns `out` instead (Nil when its deferred closure panics).
AttrsFor(c, out) ==
    LET o == Decorated(c.m, c.a, [res |-> out.res, err |-> out.err],
                       DurationString(0)).deferred
    IN  IF o.panic THEN <<>> ELSE argsToAttrSlice(o.args)

\* C7: for each decorator operation the set of attribute keys of the record is
\* the same whether the call succeeds or fails, except that the failure record
\* additionally has `error`: input-derived and result-derived fields are
\* present on failure too and do not depend on the result's contents.
C7_StableKeysAcrossOutcomes ==
    \A id \in CallIds :
        LET c == calls[id]
        IN  (c.emitted = 1 /\ c.svcOut.kind = "return")
            => /\ ("error" \in Keys(RecordOf(c).attrs)) <=> (c.svcOut.err # Nil)
               /\ \A out \in OutcomesOf(c.m.result) :
                    (out.kind = "return" /\ AttrsFor(c, out) # <<>>)
                    => KeyPaths(AttrsFor(c, out)) \ {"error"}
                       = KeyPaths(RecordOf(c).attrs) \ {"error"}

\* The name of an operation as the messages spell it: the method name, or its
\* words.
OperationWords(op) ==
    CASE op = "RegisterClient"         -> "Register client"
      [] op = "IssueToken"             -> "Issue token"
      [] op = "RefreshToken"           -> "Refresh token"
      [] op = "ViewClient"             -> "View client"
      [] op = "ViewProfile"            -> "View profile"
      [] op = "ListClients"            -> "List clients"
      [] op = "UpdateClient"           -> "Update client"
      [] op = "UpdateClientTags"       -> "Update client tags"
      [] op = "UpdateClientIdentity"   -> "Update client identity"
      [] op = "UpdateClientSecret"     -> "Update client secret"
      [] op = "GenerateResetToken"     -> "Generate reset token"
      [] op = "ResetSecret"            -> "Reset secret"
      [] op = "SendPasswordReset"      -> "Send password reset"
      [] op = "UpdateClientRole"       -> "Update client role"
      [] op = "EnableClient"           -> "Enable client"
      [] op = "DisableClient"          -> "Disable client"
      [] op = "ListMembers"            -> "List members"
      [] op = "IssueCert"              -> "Issue cert"
      [] op = "ListCerts"              -> "List certs"
      [] op = "ListSerials"            -> "List serials"
      [] op = "ViewCert"               -> "View cert"
      [] op = "RevokeCert"             -> "Revoke cert"
      [] op = "UpdateCert"             -> "Update cert"
      [] op = "UpdateConnections"      -> "Update connections"
      [] op = "ChangeState"            -> "Change state"
      [] op = "UpdateChannelHandler"   -> "Update channel handler"
      [] op = "RemoveConfigHandler"    -> "Remove config handler"
      [] op = "RemoveChannelHandler"   -> "Remove channel handler"
      [] op = "DisconnectThingHandler" -> "Disconnect thing handler"
      [] op = "AuthConnect"            -> "Auth connect"
      [] op = "AuthPublish"            -> "Auth publish"
      [] op = "AuthSubscribe"          -> "Auth subscribe"
      [] OTHER                         -> op

OperationNames(op) == {op, OperationWords(op)}

\* C8: for every decorator operation named <Operation> the record's message
\* is exactly "<Operation> completed successfully" when the wrapped call
\* returned a nil error and "<Operation> failed to complete successfully" when
\* it returned a non-nil error; no decorator uses another message shape.
C8_MessageShape ==
    \A id \in CallIds :
        LET c == calls[id]
        IN  c.emitted = 1
            => RecordOf(c).msg \in
                 { name \o (IF c.named.err = Nil
                            THEN " completed successfully"
                            ELSE " failed to complete successfully") :
                   name \in OperationNames(c.m.op) }

\* What starting the service constructs after its loggers.
ServiceParts == {"repo", "pubSub", "subscription", "httpServer", "callHome"}

\* A logger that main asked for could not be constructed.
ALoggerFailed == ~newErr.nil \/ main.chLogger = Nil

\* C11: in cassandra-writer's main, when construction of any logger from the
\* configured level text fails the service does not start: main never goes on
\* to create the repository, the broker subscription, the HTTP server or the
\* call-home client, and a diagnostic has been reported.
C11_NoStartWithoutLoggers ==
    ALoggerFailed
    => /\ main.created \cap ServiceParts = {}
       /\ main.stderr # <<>> \/ sink # <<>>

\* The record the deferred closure of call c builds at time t.
OwnRecord(c, t) ==
    LET o == Decorated(c.m, c.a, c.named, DurationString(t - c.begin)).deferred
    IN  JSONRecord(t, o.level, o.msg, o.args)

\* C12: when N decorator calls run concurrently on one logger and one sink,
\* the sink receives exactly N records, each written as one unit, and each
\* record carries the duration, attributes and outcome of its own call only;
\* the order of the records is free.
C12_ConcurrentCallsOneRecordEach ==
    /\ \A i \in DOMAIN sink : DOMAIN sink[i] = {"time", "level", "msg", "attrs"}
    /\ \A id \in CallIds :
         LET c == calls[id]
         IN  c.emitted = 1
             => /\ c.rec \in DOMAIN sink
                /\ sink[c.rec] = OwnRecord(c, sink[c.rec].time)
                /\ \A other \in CallIds \ {id} : calls[other].rec # c.rec
    /\ (\A id \in CallIds : calls[id].pc = "done" /\ calls[id].svcOut.kind # "panic")
       => Len(sink) = Cardinality(CallIds)

\* What the caller of call c gets, as a function of the method, its arguments
\* and what the wrapped service did; the sink is not among its inputs.
OutcomeOf(c) ==
    LET zero == [res |-> ZeroOf(c.m.result), err |-> Nil]
        meth == Decorated(c.m, c.a, zero, DurationString(0))
        n    == IF meth.body.kind # "delegate" THEN [res |-> Nil, err |-> Nil]
                ELSE IF c.svcOut.kind = "return"
                THEN [res |-> c.svcOut.res, err |-> c.svcOut.err]
                ELSE zero
    IN  IF meth.entryPanic \/ c.svcOut.kind = "panic"
           \/ Decorated(c.m, c.a, n, DurationString(0)).deferred.panic
        THEN Panicked(c.m.result)
        ELSE Returned(n.res, n.err)

\* C13: a failure to write a record to the sink never changes what an
\* instrumented operation returns: for every decorator operation the (result,
\* error) the caller gets is the same whether the Write of its record succeeds
\* or fails; and a failed Write never surfaces as an error of the Logger.
C13_SinkFailureDoesNotChangeOutcome ==
    /\ \A id \in CallIds :
         calls[id].pc = "done" => calls[id].observed = OutcomeOf(calls[id])
    /\ writer.errs > 0 => (lpc = "ready" /\ newErr.nil)

\* C13 witness: a failed call whose record was lost by the sink has returned
\* the wrapped service's error to its caller.
C13_Witness ==
    \E id \in CallIds :
        /\ calls[id].pc = "done" /\ calls[id].sinkErr
        /\ calls[id].observed.kind = "return"
        /\ calls[id].observed.err = ErrNotFound
        /\ sink = <<>> /\ writer.errs = 1

\* toText of the threshold the logger holds: Level.String for the facade,
\* slog.Level.String for the *slog.Logger.
ThresholdText ==
    IF logger.kind = "facade" THEN LevelName(logger.level) ELSE SlogName(logger.level)

\* C14: for every level L the text form of L is its lowercase name and
\* parsing it yields L again, so New(sink, L.String()) succeeds with threshold
\* L; and for every valid level text in any letter case, parse followed by
\* toText yields the lowercase name.
C14_LevelTextRoundTrip ==
    /\ \A lvl \in Levels :
         /\ slogger_New(LevelName(lvl)).err.nil
         /\ slogger_New(LevelName(lvl)).logger.level = lvl
         /\ logger_New(LevelName(lvl)).err.nil
         /\ logger_New(LevelName(lvl)).logger.level = SlogOpLevel(
                CASE lvl = Debug -> "Debug" [] lvl = Info -> "Info"
                  [] lvl = Warn -> "Warn" [] lvl = Error -> "Error")
    /\ (lpc = "ready" /\ ToLower(levelText) \in CanonicalTexts)
       => ThresholdText = ToLower(levelText)

\* time.Time.Format(time.RFC3339Nano) of the instant t.
FormatTime(t) == "t+" \o ToString(t) \o "ms"

\* C15: when New fails on an invalid level text the error's diagnostic has the
\* fixed shape with the fields level, message and ts, where message embeds the
\* parse error and the offending text, and ts is a timestamp: the instant of
\* the failure, not a constant.
C15_DiagnosticCarriesTimestamp ==
    lpc = "failed"
    => /\ ~newErr.nil
       /\ DOMAIN newErr.v = {"level", "message", "ts"}
       /\ newErr.v.level = "error"
       /\ newErr.v.message[2] = levelText
       /\ newErr.v.message[1] = (IF impl = "slog" THEN slogUnmarshalText(levelText).err
                                 ELSE UnmarshalText(levelText).err)
       /\ \E t \in 0..MaxClock : newErr.v.ts = FormatTime(t)

\* The lowercase text of the severity of a Logger operation.
LowerLevelText(op) ==
    CASE op = "Debug" -> "debug"
      [] op = "Info"  -> "info"
      [] op = "Warn"  -> "warn"
      [] op = "Error" -> "error"

\* C16: every record written to the sink has a top-level `level` key whose
\* value is one of the lowercase texts "debug", "info", "warn", "error", the
\* one of the severity of the logger operation that produced it.
C16_LevelKeyIsLowercaseSeverity ==
    /\ \A i \in DOMAIN sink : sink[i].level \in {LowerLevelText(op) : op \in OpNames}
    /\ (lastOp.n > 0 /\ Written = 1) => sink[Len(sink)].level = LowerLevelText(lastOp.op)

\* C17: the measurement-and-log step of a decorator method runs on every exit
\* path of the wrapped call: normal return, returned error and panic of the
\* wrapped operation; in each case exactly one record has been emitted when
\* control leaves the decorator method.
C17_RecordOnEveryExitPath ==
    \A id \in CallIds :
        LET c == calls[id]
        IN  (c.pc = "done" /\ AdmitsInfoAndWarn /\ c.svcOut.kind \in {"return", "panic"})
            => /\ c.emitted = 1
               /\ c.rec \in DOMAIN sink
               /\ sink[c.rec].time >= c.begin

\* The attributes the decorators derive from the result: [g, k, v] is key k
\* (inside group g, "" for the top level) and the value the result res gives.
ResultFields(op, res) ==
    CASE op \in {"RegisterClient", "ViewProfile", "UpdateClientSecret"} ->
            {[g |-> "user", k |-> "name", v |-> res.Name],
             [g |-> "user", k |-> "id", v |-> res.ID]}
      [] op = "UpdateClient" ->
            {[g |-> "user", k |-> "name", v |-> res.Name],
             [g |-> "user", k |-> "id", v |-> res.ID],
             [g |-> "", k |-> "metadata", v |-> res.Metadata]}
      [] op = "ViewClient" -> {[g |-> "user", k |-> "name", v |-> res.Name]}
      [] op = "UpdateClientTags" ->
            {[g |-> "user", k |-> "id", v |-> res.ID],
             [g |-> "user", k |-> "tags", v |-> SprintV(res.Tags)]}
      [] op \in {"UpdateClientIdentity", "UpdateClientRole"} ->
            {[g |-> "user", k |-> "id", v |-> res.ID]}
      [] op \in {"EnableClient", "DisableClient"} -> {[g |-> "", k |-> "id", v |-> res.ID]}
      [] op \in {"IssueToken", "RefreshToken"} ->
            {[g |-> "", k |-> "access_type", v |-> IF res.nil THEN "" ELSE res.v.AccessType]}
      [] op \in {"Add", "UpdateCert"} -> {[g |-> "", k |-> "thing_id", v |-> res.ThingID]}
      [] OTHER -> {}

HasField(attrs, f) ==
    IF f.g = "" THEN HasAttr(attrs, f.k, f.v)
    ELSE \E i \in DOMAIN attrs :
            attrs[i].key = f.g /\ IsGroup(attrs[i]) /\ HasAttr(attrs[i].group, f.k, f.v)

\* C18: a result-derived attribute of the record equals the corresponding
\* field of the result the call returned to its caller: on success the value
\* the wrapped service produced, on failure the zero value the result holds,
\* present and not omitted.
C18_ResultFieldsAreTheReturnedOnes ==
    \A id \in CallIds :
        LET c == calls[id]
        IN  (c.pc = "done" /\ AdmitsInfoAndWarn /\ c.svcOut.kind = "return"
             /\ ResultFields(c.m.op, c.svcOut.res) # {})
            => /\ c.observed.kind = "return"
               /\ c.emitted = 1
               /\ \A f \in ResultFields(c.m.op, c.observed.res) :
                    HasField(RecordOf(c).attrs, f)

\* C19: a decorator emits an Info-level "completed successfully" record only
\* for a call whose wrapped operation was invoked and returned normally with a
\* nil error; never for a call whose wrapped operation failed, panicked or was
\* not invoked.
C19_SuccessRecordOnlyOnSuccess ==
    \A id \in CallIds :
        LET c == calls[id]
        IN  (c.emitted = 1 /\ RecordOf(c).level = SlogLevelString(LevelInfo))
            => /\ Len(c.invoked) = 1
               /\ c.svcOut.kind = "return"
               /\ c.svcOut.err = Nil

\* The argument lists that differ from a at most in the credential arguments.
CredTwins(m, a) ==
    {b \in ArgsOf(m) : \A p \in Range(m.params) \ Credentials : b[p] = a[p]}

\* A record's attributes with the duration blanked.
MaskDuration(attrs) ==
    [i \in DOMAIN attrs |->
        IF attrs[i].key = "duration" THEN Attr("duration", "") ELSE attrs[i]]

\* C20: no record emitted by a decorator contains the value of a credential
\* argument (access token, refresh token, secret, client key, external key),
\* on success or on failure: two calls that differ only in such an argument
\* and have the same outcome produce records that differ at most in duration.
C20_RecordsIndependentOfCredentials ==
    \A id \in CallIds :
        LET c == calls[id]
        IN  c.emitted = 1
            => \A b \in CredTwins(c.m, c.a) :
                 LET o == Decorated(c.m, b, c.named, DurationString(0)).deferred
                 IN  /\ ~o.panic
                     /\ o.msg = RecordOf(c).msg
                     /\ SlogLevelString(o.level) = RecordOf(c).level
                     /\ MaskDuration(argsToAttrSlice(o.args))
                        = MaskDuration(RecordOf(c).attrs)

\* The errors main logs right before it returns.
ReturnErrors ==
    {"failed to generate instanceID",
     "failed to load cassandra-writer HTTP server configuration",
     "failed to connect to cassandra",
     "Failed to init Jaeger",
     "failed to connect to message broker",
     "Failed to create Cassandra writer",
     "Cassandra writer service terminated"}

\* The deferred call that releases a resource main acquired.
ReleaseOf(r) ==
    CASE r = "csdSession" -> "csdSession.Close"
      [] r = "tp"         -> "tp.Shutdown"
      [] r = "pubSub"     -> "pubSub.Close"

\* main has logged an error and returned because of it.
ReturnedOnError ==
    /\ main.pc \in {"return", "exited"}
    /\ \E i \in DOMAIN sink : sink[i].msg \in ReturnErrors

\* C21: in cassandra-writer's main, once the logger exists, every path on
\* which an error is logged and main then returns (instance id, HTTP
\* configuration, Cassandra, Jaeger, broker, consumer start, termination of
\* the server group with an error) leaves exitCode at 1, and the resources
\* acquired so far (Cassandra session, tracer provider, pub/sub) are released
\* before the deferred exit runs.
C21_ErrorPathsExitWithOne ==
    ReturnedOnError
    => /\ main.exitCode = 1
       /\ main.pc = "exited"
          => /\ main.status = 1
             /\ \A r \in main.created \cap {"csdSession", "tp", "pubSub"} :
                  \E i \in DOMAIN main.released : main.released[i] = ReleaseOf(r)

====
